---- MODULE Spec2Model ----
(***************************************************************************)
(* kndetect feature extraction (src/kndetect/features.py): the per-band    *)
(* template fit predict_band_features, the objective calc_loss, the        *)
(* residual calc_residual, the per-object assembly                         *)
(* extract_features_all_bands and the batch driver                         *)
(* extract_features_all_lightcurves.                                       *)
(*                                                                         *)
(* Numbers.  A float is a pair <<n, d>>: the rational n/d in lowest terms  *)
(* with d > 0, or <<1, 0>> (+inf), <<-1, 0>> (-inf), <<0, 0>> (NaN), which *)
(* is what numpy's division by zero produces (a warning, no exception).    *)
(* A value that went through np.sqrt is a triple <<n, d, r>>: the r-th     *)
(* root of n/d, r = 1 when the root is rational.  Feature lists hold       *)
(* triples.  Timestamps are integers in a unit of 1/8 day, so that         *)
(* time_bin = 0.25 day is 2.  Rows of a table are numbered from 1          *)
(* (position p of the model is .iloc[p - 1]); template-grid indices are    *)
(* numbered from 0 as in the source.                                       *)
(***************************************************************************)
EXTENDS Integers, Sequences, FiniteSets, TLC

\* ------------------------------------------------------------ bounds
MaxObs == 3      \* rows of one band's table
MaxT == 1        \* timestamps are 0..MaxT
MaxP == 3        \* templates passed to a fit
MaxN == 4        \* points of a template
MaxTimeBin == 2  \* time_bin, in timestamp units
MaxScale == 2    \* rescaling factors are 2..MaxScale
MaxBands == 3    \* length of a caller's band list
MaxRows == 2     \* rows of a table of several objects

\* ------------------------------------------------------------ floats
Abs(a) == IF a < 0 THEN -a ELSE a

Sign(a) == IF a > 0 THEN 1 ELSE IF a < 0 THEN -1 ELSE 0

RECURSIVE Gcd(_, _)
Gcd(a, b) == IF b = 0 THEN a ELSE Gcd(b, a % b)

R(n, d) ==
    IF d = 0 THEN <<Sign(n), 0>>
    ELSE LET g == Gcd(Abs(n), Abs(d))
         IN  <<Sign(d) * (n \div g), Abs(d) \div g>>

NaN == <<0, 0>>

Inf == <<1, 0>>

IsNaN(a) == a = NaN

IsFinite(a) == a[2] # 0

RAdd(a, b) ==
    IF a[2] = 0 /\ b[2] = 0 THEN (IF a = b THEN a ELSE NaN)
    ELSE R(a[1] * b[2] + b[1] * a[2], a[2] * b[2])

RNeg(a) == <<-a[1], a[2]>>

RSub(a, b) == RAdd(a, RNeg(b))

RMul(a, b) == R(a[1] * b[1], a[2] * b[2])

RInv(a) == IF a[1] < 0 THEN <<-a[2], -a[1]>> ELSE <<a[2], a[1]>>

RDiv(a, b) == RMul(a, RInv(b))

RSquare(a) == RMul(a, a)

\* IEEE comparison: anything compared with NaN is false.
RLess(a, b) ==
    /\ ~IsNaN(a)
    /\ ~IsNaN(b)
    /\ IF a[2] = 0 /\ b[2] = 0 THEN a[1] < b[1]
       ELSE a[1] * b[2] < b[1] * a[2]

RECURSIVE RSum(_)
RSum(s) == IF s = <<>> THEN <<0, 1>> ELSE RAdd(Head(s), RSum(Tail(s)))

RMean(s) == RDiv(RSum(s), <<Len(s), 1>>)

RECURSIVE ISqrt(_, _, _)
ISqrt(n, lo, hi) ==
    IF lo >= hi THEN lo
    ELSE LET m == (lo + hi + 1) \div 2
         IN  IF m * m <= n THEN ISqrt(n, m, hi) ELSE ISqrt(n, lo, m - 1)

Root(n) == ISqrt(n, 0, IF n < 46340 THEN n ELSE 46340)

\* np.sqrt of a float that is never negative here (a mean of squares).
RSqrt(a) ==
    IF a[2] = 0 THEN <<a[1], 0, 1>>
    ELSE IF Root(a[1]) * Root(a[1]) = a[1] /\ Root(a[2]) * Root(a[2]) = a[2]
         THEN <<Root(a[1]), Root(a[2]), 1>>
         ELSE <<a[1], a[2], 2>>

\* A float as an entry of a feature list.
Val(a) == <<a[1], a[2], 1>>

\* np.around / np.round: to the nearest integer, ties to the even one.
RoundHalfEven(a) ==
    LET fl == a[1] \div a[2]
        twice == 2 * (a[1] - a[2] * fl)
    IN  IF twice < a[2] THEN fl
        ELSE IF twice > a[2] THEN fl + 1
        ELSE IF fl % 2 = 0 THEN fl ELSE fl + 1

\* ------------------------------------------------------------ helpers
\* A list built by a comprehension, evaluated once (TLC would otherwise
\* evaluate an element again each time it is read).
List(f) == f \o <<>>

Range(s) == {s[i] : i \in DOMAIN s}

SeqsUpTo(S, n) == UNION {[1..m -> S] : m \in 0..n}

\* np.argmax: the first position holding the maximum.
ArgMax(s) ==
    CHOOSE i \in DOMAIN s :
        /\ \A j \in DOMAIN s : s[j] <= s[i]
        /\ \A j \in DOMAIN s : j < i => s[j] < s[i]

Column(df, name) == List([i \in DOMAIN df |-> df[i][name]])

\* df[mask]: the rows whose position is in keep, in their order.
RECURSIVE Positions(_, _)
Positions(n, keep) ==
    IF n = 0 THEN <<>>
    ELSE IF n \in keep THEN Append(Positions(n - 1, keep), n)
    ELSE Positions(n - 1, keep)

Rows(df, keep) ==
    LET pos == Positions(Len(df), keep)
    IN  List([j \in DOMAIN pos |-> df[pos[j]]])

RECURSIVE Flatten(_)
Flatten(ss) == IF ss = <<>> THEN <<>> ELSE Head(ss) \o Flatten(Tail(ss))

\* ------------------------------------------------------------ constants
\* extract_features_all_lightcurves: flux_lim = 200.
FluxLim == 200

\* extract_features_all_lightcurves: time_bin = 0.25 day, in units of 1/8 day.
DriverTimeBin == 2

\* get_feature_names(npcs=3), as the batch driver calls it.
DefaultNpcs == 3

\* low_var_indices = [1, 2] (0-based coefficient indices).
LowVarIndices == <<1, 2>>

\* ------------------------------------------------------------ features.py
names_root(npcs) ==
    [i \in 1..npcs |-> "coeff" \o ToString(i) \o "_"] \o <<"residuo_", "maxflux_">>

\* [i + j for j in ["g", "r"] for i in names_root]
get_feature_names(npcs) ==
    LET labels == <<"g", "r">>
        root == names_root(npcs)
    IN  Flatten(List([j \in DOMAIN labels |->
                    List([i \in DOMAIN root |-> root[i] \o labels[j]])]))

\* zip(pcs_arr, coeff) stops at the shorter of the two.
calc_prediction(coeff, pcs_arr) ==
    LET m == IF Len(coeff) < Len(pcs_arr) THEN Len(coeff) ELSE Len(pcs_arr)
    IN  List([n \in DOMAIN pcs_arr[1] |->
                 RSum(List([i \in 1..m |-> RMul(coeff[i], pcs_arr[i][n])]))])

\* np.take(a, indices): an index outside -len..len-1 raises IndexError, a
\* negative one inside it counts from the end.
TakeRaises(a, indices) ==
    \E j \in DOMAIN indices : indices[j] \notin (-Len(a))..(Len(a) - 1)

Take(a, indices) == List([j \in DOMAIN indices |-> a[(indices[j] % Len(a)) + 1]])

\* coeff[low_var_indices[:]] on an ndarray raises IndexError the same way.
IndexRaises(coeff, low_var_indices) ==
    \E k \in DOMAIN low_var_indices :
        low_var_indices[k] \notin (-Len(coeff))..(Len(coeff) - 1)

reconstruction_terms(coeff, pcs_arr, light_curve_flux, light_curve_err, map_dates_to_arr_index) ==
    LET real_flux == Take(calc_prediction(coeff, pcs_arr), map_dates_to_arr_index)
    IN  List([j \in DOMAIN light_curve_flux |->
                 RDiv(RSquare(RSub(real_flux[j], light_curve_flux[j])),
                      RSquare(light_curve_err[j]))])

\* The squares of every coefficient but the first, whatever the index set.
regularization_term_all_but_first(coeff, low_var_indices) ==
    LET low == RSum(List([i \in 1..(Len(coeff) - 1) |-> RSquare(coeff[i + 1])]))
    IN  IF RLess(coeff[1], <<0, 1>>) THEN RAdd(low, RSquare(coeff[1])) ELSE low

\* np.sum(np.square(coeff[low_var_indices[:]])), and np.square(coeff[0]) more
\* when coeff[0] < 0
regularization_term(coeff, low_var_indices) ==
    LET low == RSum(List([k \in DOMAIN low_var_indices |->
                        RSquare(coeff[(low_var_indices[k] % Len(coeff)) + 1])]))
    IN  IF RLess(coeff[1], <<0, 1>>) THEN RAdd(low, RSquare(coeff[1])) ELSE low

\* args: [pcs, flux, err, map, weight, low_var_indices], as minimize passes them.
\* np.take (line 93) and coeff[low_var_indices[:]] (line 103) raise IndexError.
calc_loss_raises(coeff, args) ==
    \/ TakeRaises(args.pcs[1], args.map)
    \/ IndexRaises(coeff, args.low_var_indices)

calc_loss(coeff, args) ==
    IF calc_loss_raises(coeff, args)
    THEN [raised |-> TRUE, reconstruction_loss |-> NaN,
          regularization_term |-> NaN, loss |-> NaN]
    ELSE LET reconstruction_loss ==
                 RSum(reconstruction_terms(coeff, args.pcs, args.flux, args.err,
                                           args.map))
             reg == regularization_term(coeff, args.low_var_indices)
         IN  [raised |-> FALSE, reconstruction_loss |-> reconstruction_loss,
              regularization_term |-> reg,
              loss |-> RAdd(reconstruction_loss, RMul(reg, args.weight))]

calc_residual(coeff, pcs_arr, light_curve_flux, light_curve_err, map_dates_to_arr_index) ==
    IF TakeRaises(pcs_arr[1], map_dates_to_arr_index)
    THEN [raised |-> TRUE, residual |-> Val(NaN)]
    ELSE [raised |-> FALSE,
          residual |-> RSqrt(RMean(reconstruction_terms(coeff, pcs_arr,
                          light_curve_flux, light_curve_err,
                          map_dates_to_arr_index)))]

\* ------------------------------------------------------------ minimize
\* scipy.optimize.minimize with bounds (L-BFGS-B) is not part of the
\* repository.  What the repository relies on is modelled: the objective is
\* evaluated at the initial guess, so an exception of calc_loss leaves
\* minimize; the result is a point of the box, any point: the projection
\* onto the box of a point opt that the caller of the model chooses; and
\* equal arguments give equal results (the actions see to that).
Clip(v, b) == IF RLess(v, b[1]) THEN b[1] ELSE IF RLess(b[2], v) THEN b[2] ELSE v

minimize(initial_guess, args, bounds, opt) ==
    IF calc_loss_raises(initial_guess, args)
    THEN [raised |-> TRUE, x |-> initial_guess]
    ELSE [raised |-> FALSE,
          x |-> List([i \in DOMAIN initial_guess |-> Clip(opt[i], bounds[i])])]

\* ------------------------------------------------------------ predict_band_features
Zeros(n) == List([i \in 1..n |-> Val(<<0, 1>>)])

\* One zero for each name of both bands.
EmptyBandFeatures_all_names(num_pcs) == Zeros(Len(get_feature_names(num_pcs)))

\* np.zeros(int(len(get_feature_names(num_pcs)) / 2)).tolist()
EmptyBandFeatures(num_pcs) == Zeros(Len(get_feature_names(num_pcs)) \div 2)

\* The window centred on the first row.
MidPointDate_first_row(band_df_, max_loc) == band_df_[1].MJD

MidPointDate(band_df, max_loc) == band_df[max_loc].MJD

PredictionDuration(time_bin_, num_prediction_points) ==
    <<time_bin_ * (num_prediction_points - 1), 1>>

\* (band_df["MJD"] > start_date) & (band_df["MJD"] < end_date)
DurationIndex(band_df, mid_point_date, prediction_duration) ==
    LET half == RDiv(prediction_duration, <<2, 1>>)
        start_date == RSub(<<mid_point_date, 1>>, half)
        end_date == RAdd(<<mid_point_date, 1>>, half)
    IN  {i \in DOMAIN band_df :
            /\ RLess(start_date, <<band_df[i].MJD, 1>>)
            /\ RLess(<<band_df[i].MJD, 1>>, end_date)}

\* The gate without the count of rows.
FitGate_flux_only(max_flux, flux_lim_, n) == max_flux > flux_lim_

\* (max_flux > flux_lim) & (len(band_df) >= 2)
FitGate(max_flux, flux_lim_, n) == max_flux > flux_lim_ /\ n >= 2

\* The position without the shift to the centre of the grid.
GridPosition_no_offset(mjd, mid_point_date, time_bin_, num_prediction_points) ==
    RDiv(<<mjd - mid_point_date, 1>>, <<time_bin_, 1>>)

\* np.around((MJD - mid_point_date) / time_bin + (N - 1) / 2).astype(int)
GridPosition(mjd, mid_point_date, time_bin_, num_prediction_points) ==
    RAdd(RDiv(<<mjd - mid_point_date, 1>>, <<time_bin_, 1>>),
         RDiv(<<num_prediction_points - 1, 1>>, <<2, 1>>))

MapDatesToArrIndex(window_df, mid_point_date, time_bin_, num_prediction_points) ==
    List([j \in DOMAIN window_df |->
        RoundHalfEven(GridPosition(window_df[j].MJD, mid_point_date, time_bin_,
                                   num_prediction_points))])

\* np.zeros(num_pcs) + 0.5
InitialGuess(num_pcs) == List([i \in 1..num_pcs |-> <<1, 2>>])

\* A box with a wider upper side.
Bounds_upper_4(num_pcs) == List([i \in 1..num_pcs |-> <<(<<-2, 1>>), (<<4, 1>>)>>])

\* bounds.append([-2, 2]) for each coefficient
Bounds(num_pcs) == List([i \in 1..num_pcs |-> <<(<<-2, 1>>), (<<2, 1>>)>>])

RegularizationWeight(max_flux, err_bar_of_max_flux) ==
    RSquare(RDiv(<<max_flux, 1>>, <<err_bar_of_max_flux, 1>>))

NormalizedFlux(window_df, max_flux) ==
    List([j \in DOMAIN window_df |->
             RDiv(<<window_df[j].FLUXCAL, 1>>, <<max_flux, 1>>)])

\* The errors divided by the flux threshold, not by the maximum flux.
NormalizedErrBars_by_flux_lim(window_df, max_flux) ==
    List([j \in DOMAIN window_df |-> R(window_df[j].FLUXCALERR, FluxLim)])

\* band_df["FLUXCALERR"] / max_flux
NormalizedErrBars(window_df, max_flux) ==
    List([j \in DOMAIN window_df |->
             RDiv(<<window_df[j].FLUXCALERR, 1>>, <<max_flux, 1>>)])

\* What a call leaves when it has not got as far as the fit.
NoCall ==
    [branch |-> "none", outcome |-> "none", features |-> <<>>, max_loc |-> 0,
     max_flux |-> 0, mid_point_date |-> 0, keep |-> <<>>, win_max_loc |-> 0, map |-> <<>>,
     err_bar_of_max_flux |-> 0, args |-> <<>>, bounds |-> <<>>,
     initial_guess |-> <<>>, coeff |-> <<>>, residual |-> Val(<<0, 1>>),
     max_band_flux |-> 0, optimizer_calls |-> 0]

\* The fit branch (lines 200-254), window_df being band_df[duration_index].
FitBranch(base, window_df, pcs_, time_bin_, low_var_indices, opt) ==
    LET num_pcs == Len(pcs_)
        num_prediction_points == Len(pcs_[1])
        max_flux == base.max_flux
        win_max_loc == ArgMax(Column(window_df, "FLUXCAL"))
        map == MapDatesToArrIndex(window_df, base.mid_point_date, time_bin_,
                                  num_prediction_points)
        initial_guess == InitialGuess(num_pcs)
        err_bar_of_max_flux == window_df[win_max_loc].FLUXCALERR
        args == [pcs |-> pcs_,
                 flux |-> NormalizedFlux(window_df, max_flux),
                 err |-> NormalizedErrBars(window_df, max_flux),
                 map |-> map,
                 weight |-> RegularizationWeight(max_flux, err_bar_of_max_flux),
                 low_var_indices |-> low_var_indices]
        bounds == Bounds(num_pcs)
        result == minimize(initial_guess, args, bounds, opt)
        res == calc_residual(result.x, pcs_, args.flux, args.err, map)
        locals == [base EXCEPT !.branch = "fit", !.win_max_loc = win_max_loc,
                       !.map = map, !.err_bar_of_max_flux = err_bar_of_max_flux,
                       !.args = args, !.bounds = bounds,
                       !.initial_guess = initial_guess, !.optimizer_calls = 1]
    IN  IF result.raised \/ res.raised
        THEN [locals EXCEPT !.outcome = "IndexError"]
        ELSE [locals EXCEPT !.outcome = "returned",
                 !.coeff = result.x, !.residual = res.residual,
                 !.max_band_flux = max_flux,
                 !.features = List([i \in DOMAIN result.x |-> Val(result.x[i])])
                              \o <<res.residual, Val(<<max_flux, 1>>)>>]

predict_band_features(band_df, pcs_, time_bin_, flux_lim_, low_var_indices, opt) ==
    LET num_pcs == Len(pcs_)
        num_prediction_points == Len(pcs_[1])
    IN  IF Len(band_df) = 0
        THEN [NoCall EXCEPT !.branch = "empty", !.outcome = "returned",
                            !.features = EmptyBandFeatures(num_pcs)]
        ELSE
        LET max_loc == ArgMax(Column(band_df, "FLUXCAL"))
            max_flux == band_df[max_loc].FLUXCAL
            mid_point_date == MidPointDate(band_df, max_loc)
            prediction_duration == PredictionDuration(time_bin_, num_prediction_points)
            keep == Positions(Len(band_df),
                              DurationIndex(band_df, mid_point_date, prediction_duration))
            window_df == Rows(band_df, Range(keep))
            base == [NoCall EXCEPT !.max_loc = max_loc, !.max_flux = max_flux,
                                   !.mid_point_date = mid_point_date, !.keep = keep]
        IN  IF FitGate(max_flux, flux_lim_, Len(window_df))
            THEN FitBranch(base, window_df, pcs_, time_bin_, low_var_indices, opt)
            ELSE [base EXCEPT !.branch = "nofit", !.outcome = "returned",
                     !.features = Zeros(num_pcs) \o <<Val(<<0, 1>>), Val(<<0, 1>>)>>]

\* ------------------------------------------------------------ inputs
FluxVals == {200, 500}

ErrVals == {-25, 0, 50}

BandRows == [MJD : 0..MaxT, FLUXCAL : FluxVals, FLUXCALERR : ErrVals]

\* The template matrix comes from a file (utils.load_pcs); any P x N matrix
\* of floats is a possible one.  The model takes this one for each P and N.
PcsValue(i, n) == R(((i * n + 1) % 4) - 1, 2)

Pcs(P, N) == List([i \in 1..P |-> List([n \in 1..N |-> PcsValue(i, n - 1)])])

\* Points the solver may be heading for, before projection onto the box.
OptPatterns ==
    {<< <<1, 2>> >>, << <<4, 1>>, <<-4, 1>>, <<0, 1>> >>, << <<-1, 1>>, <<1, 4>> >>}

OptPoints(num_pcs) ==
    {List([i \in 1..num_pcs |-> pat[((i - 1) % Len(pat)) + 1]]) : pat \in OptPatterns}

NoOpt == <<>>

\* Every flux and every flux error of the band multiplied by k.
ScaleBand(df, k) ==
    List([i \in DOMAIN df |->
             [df[i] EXCEPT !.FLUXCAL = k * @, !.FLUXCALERR = k * @]])

\* Tables of several objects: the errors are valid, the bands and keys vary.
Labels == {"g", "r", "i"}

ObjRows == [key : {1, 2}, MJD : 0..1, FLUXCAL : FluxVals, FLUXCALERR : {50},
            FLT : Labels]

FilterLists ==
    {f \in SeqsUpTo(Labels, MaxBands) :
        Len(f) >= 1 /\ \A a, b \in DOMAIN f : a # b => f[a] # f[b]}

\* Coefficient vectors handed to calc_loss.
CoeffVals == {<<-2, 1>>, <<0, 1>>, <<1, 2>>, <<2, 1>>}

\* ------------------------------------------------------------ state
VARIABLES
    pc,            \* where the caller is
    pcs,           \* the template matrix, P rows of N points
    time_bin,
    flux_lim,
    band_df,       \* the table predict_band_features is called on
    opt,           \* where the solver was heading in the call that gave ret
    ret,           \* locals and result of the last predict_band_features
    k,             \* the rescaling factor of the second call
    ret_k,         \* locals and result of the call on the rescaled table
    lc_df,         \* the driver's table of all objects
    filters,       \* the caller's band list
    obj_i,         \* objects taken from object_ids so far
    object_lc,     \* the current object's rows
    band_i,        \* the band extract_features_all_bands is at
    all_features,  \* its list so far
    features_df,   \* the driver's columns
    coeff,         \* calc_loss's argument
    loss_ret       \* what calc_loss returned

vars == <<pc, pcs, time_bin, flux_lim, band_df, opt, ret, k, ret_k, lc_df,
          filters, obj_i, object_lc, band_i, all_features, features_df, coeff,
          loss_ret>>

NoLoss ==
    [raised |-> FALSE, reconstruction_loss |-> NaN, regularization_term |-> NaN,
     loss |-> NaN]

feature_names == get_feature_names(DefaultNpcs)

NoDriver ==
    /\ lc_df = <<>>
    /\ filters = <<>>
    /\ obj_i = 0
    /\ object_lc = <<>>
    /\ band_i = 0
    /\ all_features = <<>>
    /\ features_df = [key |-> <<>>, columns |-> <<>>]

NoLossCall == coeff = <<>> /\ loss_ret = NoLoss

\* A direct call of predict_band_features on one band's table.
InitBand ==
    /\ pc = "call"
    /\ pcs \in {Pcs(P, N) : P \in 1..MaxP, N \in 1..MaxN}
    /\ time_bin \in 1..MaxTimeBin
    /\ flux_lim = FluxLim
    /\ band_df \in SeqsUpTo(BandRows, MaxObs)
    /\ opt = NoOpt
    /\ ret = NoCall
    /\ k = 1
    /\ ret_k = NoCall
    /\ NoDriver
    /\ NoLossCall

\* The same, followed by a call on the table rescaled by k.
InitScale ==
    /\ pc = "call"
    /\ pcs \in {Pcs(P, N) : P \in 1..MaxP, N \in 1..MaxN}
    /\ time_bin \in 1..MaxTimeBin
    /\ flux_lim = FluxLim
    /\ band_df \in SeqsUpTo(BandRows, MaxObs)
    /\ opt = NoOpt
    /\ ret = NoCall
    /\ k \in 2..MaxScale
    /\ ret_k = NoCall
    /\ NoDriver
    /\ NoLossCall

\* predict_band_features(band_df, pcs, time_bin, flux_lim, low_var_indices)
PredictBand ==
    /\ pc = "call"
    /\ \E o \in OptPoints(Len(pcs)) :
          LET r == predict_band_features(band_df, pcs, time_bin, flux_lim,
                                         LowVarIndices, o)
          IN  /\ ret' = r
              /\ opt' = IF r.branch = "fit" /\ r.outcome = "returned"
                        THEN o ELSE NoOpt
    /\ pc' = "done"
    /\ UNCHANGED <<pcs, time_bin, flux_lim, band_df, k, ret_k, lc_df, filters,
                   obj_i, object_lc, band_i, all_features, features_df, coeff,
                   loss_ret>>

\* The solver is given the same three arguments as in the call that gave ret.
SameArguments(r) ==
    /\ opt # NoOpt
    /\ r.branch = "fit"
    /\ r.initial_guess = ret.initial_guess
    /\ r.bounds = ret.bounds
    /\ r.args = ret.args

\* predict_band_features on the table rescaled by k.
PredictScaled ==
    /\ pc = "done"
    /\ \E o \in OptPoints(Len(pcs)) :
          LET r == predict_band_features(ScaleBand(band_df, k), pcs, time_bin,
                                         flux_lim, LowVarIndices, o)
          IN  /\ SameArguments(r) => o = opt
              /\ ret_k' = r
    /\ pc' = "rescaled"
    /\ UNCHANGED <<pcs, time_bin, flux_lim, band_df, opt, ret, k, lc_df,
                   filters, obj_i, object_lc, band_i, all_features, features_df,
                   coeff, loss_ret>>

\* ------------------------------------------------------------ calc_loss alone
\* calc_loss on the arguments of the fit of a fixed two-row band, for any
\* coefficient vector of any length from 1 to MaxP + 1.
LossBand ==
    << [MJD |-> 0, FLUXCAL |-> 500, FLUXCALERR |-> 50],
       [MJD |-> 1, FLUXCAL |-> 200, FLUXCALERR |-> 50] >>

LossArgs(pcs_) ==
    [pcs |-> pcs_,
     flux |-> NormalizedFlux(LossBand, 500),
     err |-> NormalizedErrBars(LossBand, 500),
     map |-> MapDatesToArrIndex(LossBand, 0, DriverTimeBin, Len(pcs_[1])),
     weight |-> RegularizationWeight(500, 50),
     low_var_indices |-> LowVarIndices]

InitLoss ==
    /\ pc = "objective"
    /\ pcs \in {Pcs(P, MaxN) : P \in 1..(MaxP + 1)}
    /\ time_bin = DriverTimeBin
    /\ flux_lim = FluxLim
    /\ band_df = LossBand
    /\ opt = NoOpt
    /\ ret = NoCall
    /\ k = 1
    /\ ret_k = NoCall
    /\ NoDriver
    /\ coeff \in [1..Len(pcs) -> CoeffVals]
    /\ loss_ret = NoLoss

EvalLoss ==
    /\ pc = "objective"
    /\ loss_ret' = calc_loss(coeff, LossArgs(pcs))
    /\ pc' = "evaluated"
    /\ UNCHANGED <<pcs, time_bin, flux_lim, band_df, opt, ret, k, ret_k, lc_df,
                   filters, obj_i, object_lc, band_i, all_features, features_df,
                   coeff>>

\* ------------------------------------------------------------ the batch driver
\* extract_features_all_lightcurves(lc_df, key, pcs, filters), mimic_alerts
\* False: time_bin and flux_lim are its own, the names are get_feature_names().
\* np.unique(lc_df[key]): the keys, sorted.
RECURSIVE SortedKeys(_)
SortedKeys(S) ==
    IF S = {} THEN <<>>
    ELSE LET m == CHOOSE a \in S : \A b \in S : a <= b
         IN  <<m>> \o SortedKeys(S \ {m})

object_ids == SortedKeys({lc_df[i].key : i \in DOMAIN lc_df})

InitObj ==
    /\ pc = "driver"
    /\ pcs \in {Pcs(P, MaxN) : P \in 1..MaxP}
    /\ time_bin = DriverTimeBin
    /\ flux_lim = FluxLim
    /\ band_df = <<>>
    /\ opt = NoOpt
    /\ ret = NoCall
    /\ k = 1
    /\ ret_k = NoCall
    /\ lc_df \in SeqsUpTo(ObjRows, MaxRows)
    /\ filters \in FilterLists
    /\ obj_i = 0
    /\ object_lc = <<>>
    /\ band_i = 0
    /\ all_features = <<>>
    /\ features_df = [key |-> <<>>, columns |-> [n \in DOMAIN feature_names |-> <<>>]]
    /\ NoLossCall

\* for object_id in object_ids: the object's rows, those with a flux that is
\* not NaN (a flux equal to itself), and the call of extract_features_all_bands.
NextObject ==
    /\ pc = "driver"
    /\ obj_i < Len(object_ids)
    /\ obj_i' = obj_i + 1
    /\ LET object_id == object_ids[obj_i + 1]
           of_object == Rows(lc_df, {i \in DOMAIN lc_df : lc_df[i].key = object_id})
       IN  object_lc' = Rows(of_object, {i \in DOMAIN of_object :
                                  of_object[i].FLUXCAL = of_object[i].FLUXCAL})
    /\ all_features' = <<>>
    /\ band_i' = 1
    /\ pc' = "bands"
    /\ UNCHANGED <<pcs, time_bin, flux_lim, band_df, opt, ret, k, ret_k, lc_df,
                   filters, features_df, coeff, loss_ret>>

\* extract_features_all_bands: for band in filters, one predict_band_features
\* on lc[lc["FLT"] == band], its features appended; an exception leaves the
\* driver.
BandStep ==
    /\ pc = "bands"
    /\ band_i <= Len(filters)
    /\ LET df == Rows(object_lc, {i \in DOMAIN object_lc :
                                     object_lc[i].FLT = filters[band_i]})
       IN  /\ band_df' = df
           /\ \E o \in OptPoints(Len(pcs)) :
                 LET features == predict_band_features(df, pcs, time_bin,
                                     flux_lim, LowVarIndices, o)
                 IN  /\ ret' = features
                     /\ opt' = IF features.branch = "fit" /\ features.outcome = "returned"
                               THEN o ELSE NoOpt
                     /\ IF features.outcome = "returned"
                        THEN /\ all_features' = all_features \o features.features
                             /\ band_i' = band_i + 1
                             /\ pc' = "bands"
                        ELSE /\ UNCHANGED <<all_features, band_i>>
                             /\ pc' = "raised"
    /\ UNCHANGED <<pcs, time_bin, flux_lim, k, ret_k, lc_df, filters, obj_i,
                   object_lc, features_df, coeff, loss_ret>>

\* features_df["key"].append(object_id), then for i, feature_name in
\* enumerate(feature_names): features_df[feature_name].append(features[i]);
\* features[i] raises IndexError when the list is shorter than the names.
CollectRow ==
    /\ pc = "bands"
    /\ band_i > Len(filters)
    /\ IF Len(all_features) < Len(feature_names)
       THEN /\ pc' = "raised"
            /\ UNCHANGED features_df
       ELSE /\ pc' = "driver"
            /\ features_df' =
                   [key |-> Append(features_df.key, object_ids[obj_i]),
                    columns |-> [n \in DOMAIN feature_names |->
                        Append(features_df.columns[n], all_features[n])]]
    /\ UNCHANGED <<pcs, time_bin, flux_lim, band_df, opt, ret, k, ret_k, lc_df,
                   filters, obj_i, object_lc, band_i, all_features, coeff,
                   loss_ret>>

\* return pd.DataFrame.from_dict(features_df)
ReturnTable ==
    /\ pc = "driver"
    /\ obj_i = Len(object_ids)
    /\ pc' = "returned"
    /\ UNCHANGED <<pcs, time_bin, flux_lim, band_df, opt, ret, k, ret_k, lc_df,
                   filters, obj_i, object_lc, band_i, all_features, features_df,
                   coeff, loss_ret>>

\* ------------------------------------------------------------ specifications
Next == PredictBand

Spec == InitBand /\ [][Next]_vars

NextScale == PredictBand \/ PredictScaled

SpecScale == InitScale /\ [][NextScale]_vars

NextLoss == EvalLoss

SpecLoss == InitLoss /\ [][NextLoss]_vars

NextObj == NextObject \/ BandStep \/ CollectRow \/ ReturnTable

SpecObj == InitObj /\ [][NextObj]_vars

\* ------------------------------------------------------------ what the claims speak of
\* Stated from the inputs alone, not from the locals of the call.
NumPcs == Len(pcs)

NumPoints == Len(pcs[1])

ZeroEntry == <<0, 1, 1>>

PeakFlux(df) ==
    CHOOSE f \in {df[i].FLUXCAL : i \in DOMAIN df} :
        \A i \in DOMAIN df : df[i].FLUXCAL <= f

\* The first row holding the maximum flux.
PeakRow(df) ==
    CHOOSE p \in DOMAIN df :
        /\ df[p].FLUXCAL = PeakFlux(df)
        /\ \A j \in 1..(p - 1) : df[j].FLUXCAL # PeakFlux(df)

\* |timestamp - peak_timestamp| < time_bin * (N - 1) / 2
InWindow(df) ==
    {i \in DOMAIN df :
        2 * Abs(df[i].MJD - df[PeakRow(df)].MJD) < time_bin * (NumPoints - 1)}

\* timestamp - peak_timestamp)/time_bin + (N - 1)/2 as a fraction num/den,
\* rounded with ties up, and with ties down.
GridNum(df, i) == 2 * (df[i].MJD - df[PeakRow(df)].MJD) + time_bin * (NumPoints - 1)

GridDen == 2 * time_bin

TiesUp(df, i) == (2 * GridNum(df, i) + GridDen) \div (2 * GridDen)

TiesDown(df, i) == -((GridDen - 2 * GridNum(df, i)) \div (2 * GridDen))

\* ------------------------------------------------------------ C1
\* C1: on a nonempty band, a maximum flux <= flux_lim before windowing, or
\* fewer than 2 rows inside the window, gives P zero coefficients, residual 0
\* and peak flux 0 without a call of the optimizer; the optimizer is called
\* only when the maximum flux > flux_lim and at least 2 rows are inside the
\* window.  One row of flux 500 with P = 3, N = 9, time_bin = 0.25 day gives
\* [0, 0, 0, 0, 0].
C1_GateDecidesFit ==
    /\ (pc = "done" /\ Len(band_df) > 0) =>
          /\ (PeakFlux(band_df) <= flux_lim \/ Cardinality(InWindow(band_df)) < 2) =>
                 /\ ret.outcome = "returned"
                 /\ ret.features = [i \in 1..(NumPcs + 2) |-> ZeroEntry]
                 /\ ret.optimizer_calls = 0
          /\ ret.optimizer_calls = 1 =>
                 /\ PeakFlux(band_df) > flux_lim
                 /\ Cardinality(InWindow(band_df)) >= 2
    /\ \A o \in OptPoints(3) :
          predict_band_features(<<[MJD |-> 0, FLUXCAL |-> 500, FLUXCALERR |-> 50]>>,
                                Pcs(3, 9), 2, 200, LowVarIndices, o).features
              = <<ZeroEntry, ZeroEntry, ZeroEntry, ZeroEntry, ZeroEntry>>

\* A band of several rows, bright enough, with one row inside the window.
C1_Witness ==
    /\ pc = "done"
    /\ Len(band_df) = 3
    /\ PeakFlux(band_df) = 500
    /\ Cardinality(InWindow(band_df)) = 1
    /\ ret.features = [i \in 1..(NumPcs + 2) |-> ZeroEntry]

\* ------------------------------------------------------------ C2
\* C2: a band with no rows gives, without an error, P + 2 zeros; no peak is
\* located and the optimizer is not called.
C2_EmptyBandZeros ==
    (pc = "done" /\ Len(band_df) = 0) =>
        /\ ret.outcome = "returned"
        /\ ret.features = [i \in 1..(NumPcs + 2) |-> ZeroEntry]
        /\ ret.branch = "empty"
        /\ ret.max_loc = 0
        /\ ret.optimizer_calls = 0

C2_Witness ==
    /\ pc = "done"
    /\ band_df = <<>>
    /\ NumPcs = 2
    /\ ret.outcome = "returned"
    /\ Len(ret.features) = 4

\* ------------------------------------------------------------ C5
\* C5: in a fit, the rows kept are those strictly inside the window, and the
\* grid index of each, with ties rounded either way, is in 0..N-1.
C5_IndexInRange ==
    (pc = "done" /\ ret.branch = "fit") =>
        /\ Range(ret.keep) = InWindow(band_df)
        /\ \A j \in DOMAIN ret.map :
              /\ ret.map[j] \in 0..(NumPoints - 1)
              /\ ret.map[j] \in {TiesUp(band_df, ret.keep[j]), TiesDown(band_df, ret.keep[j])}
              /\ TiesUp(band_df, ret.keep[j]) \in 0..(NumPoints - 1)
              /\ TiesDown(band_df, ret.keep[j]) \in 0..(NumPoints - 1)

\* A fit with a row half a bin from the first grid point, rounded to it.
C5_Witness ==
    /\ pc = "done"
    /\ ret.branch = "fit"
    /\ ret.outcome = "returned"
    /\ \E j \in DOMAIN ret.map :
          /\ ret.map[j] = 0
          /\ TiesUp(band_df, ret.keep[j]) = 1
          /\ TiesDown(band_df, ret.keep[j]) = 0

\* ------------------------------------------------------------ C6
\* C6: every coefficient of a returned record is in [-2, 2]; in a fit the
\* optimizer starts from 0.5 for each coefficient, is given [-2, 2] for each,
\* and its result is the record's coefficients; without a fit they are 0.
C6_CoefficientsInBox ==
    (pc = "done" /\ ret.outcome = "returned") =>
        /\ Len(ret.features) = NumPcs + 2
        /\ \A i \in 1..NumPcs :
              /\ ret.features[i][3] = 1
              /\ ret.features[i][2] > 0
              /\ -2 * ret.features[i][2] <= ret.features[i][1]
              /\ ret.features[i][1] <= 2 * ret.features[i][2]
        /\ ret.branch = "fit" =>
              /\ ret.initial_guess = [i \in 1..NumPcs |-> <<1, 2>>]
              /\ ret.bounds = [i \in 1..NumPcs |-> << <<-2, 1>>, <<2, 1>> >>]
              /\ \A i \in 1..NumPcs : ret.features[i] = Val(ret.coeff[i])
        /\ ret.branch # "fit" =>
              \A i \in 1..NumPcs : ret.features[i] = ZeroEntry

\* A fit whose result lies on the upper and on the lower bound.
C6_Witness ==
    /\ pc = "done"
    /\ ret.branch = "fit"
    /\ ret.outcome = "returned"
    /\ ret.features[1] = <<2, 1, 1>>
    /\ ret.features[2] = <<-2, 1, 1>>

\* ------------------------------------------------------------ C7
\* C7: a band that passes the gate and has, inside the window, a row whose
\* flux error is zero or negative ends in a fatal outcome, not in a record.
C7_BadErrorIsFatal ==
    (/\ pc = "done"
     /\ ret.branch = "fit"
     /\ \E i \in InWindow(band_df) : band_df[i].FLUXCALERR <= 0)
        => ret.outcome # "returned"

\* ------------------------------------------------------------ C10
\* C10: in a fit the first row of maximum flux is kept by the window and is
\* the row found again inside it; the maximum flux of the window is the
\* maximum flux of the band, used for the threshold, the normalisation and
\* the reported peak flux; the error in the regularization weight is that
\* row's.
C10_SamePeak ==
    (pc = "done" /\ ret.branch = "fit") =>
        LET p == PeakRow(band_df)
        IN  /\ ret.max_loc = p
            /\ p \in Range(ret.keep)
            /\ ret.keep[ret.win_max_loc] = p
            /\ ret.max_flux = PeakFlux(band_df)
            /\ \A j \in DOMAIN ret.keep : band_df[ret.keep[j]].FLUXCAL <= ret.max_flux
            /\ ret.err_bar_of_max_flux = band_df[p].FLUXCALERR
            /\ ret.args.weight
                   = RSquare(RDiv(<<PeakFlux(band_df), 1>>, <<band_df[p].FLUXCALERR, 1>>))
            /\ ret.args.flux[ret.win_max_loc] = <<1, 1>>
            /\ ret.outcome = "returned" => ret.max_band_flux = PeakFlux(band_df)

\* Rows out of time order, the first one outside the window, and two rows
\* with the maximum flux and different errors.
C10_Witness ==
    /\ pc = "done"
    /\ ret.branch = "fit"
    /\ ret.outcome = "returned"
    /\ Len(band_df) = 3
    /\ band_df[1].MJD > band_df[2].MJD
    /\ ret.keep = <<2, 3>>
    /\ ret.max_loc = 2
    /\ ret.win_max_loc = 1
    /\ band_df[2].FLUXCAL = band_df[3].FLUXCAL
    /\ band_df[2].FLUXCALERR # band_df[3].FLUXCALERR

\* ------------------------------------------------------------ C8
\* The gate on the maximum flux decides the same for the band and for the band
\* rescaled by k.
SameSideOfFluxLim ==
    (PeakFlux(band_df) > flux_lim) <=> (k * PeakFlux(band_df) > flux_lim)

\* C8 as stated: every flux and flux error of any band multiplied by any
\* positive k leaves the residual of the returned record unchanged.
C8_ResidualScaleInvariant ==
    (pc = "rescaled" /\ ret.outcome = "returned" /\ ret_k.outcome = "returned") =>
        ret_k.residual = ret.residual

\* C8: when the maximum flux of the band and k times it are on the same side
\* of flux_lim, every flux and flux error multiplied by k leaves the outcome
\* and the residual unchanged (in exact arithmetic): the optimizer is given
\* the same normalised fluxes, errors and regularization weight.
C8_ResidualScaleInvariantSameGate ==
    (pc = "rescaled" /\ (band_df = <<>> \/ SameSideOfFluxLim)) =>
        /\ ret_k.branch = ret.branch
        /\ ret_k.outcome = ret.outcome
        /\ ret_k.residual = ret.residual
        /\ ret.branch = "fit" =>
              /\ ret_k.args.flux = ret.args.flux
              /\ ret_k.args.err = ret.args.err
              /\ ret_k.args.weight = ret.args.weight
              /\ ret_k.max_flux = k * ret.max_flux

\* A fit of both bands with the same residual, finite and not 0.
C8_Witness ==
    /\ pc = "rescaled"
    /\ k = 2
    /\ ret.branch = "fit"
    /\ ret_k.branch = "fit"
    /\ ret.outcome = "returned"
    /\ ret.residual[2] > 0
    /\ ret.residual[1] > 0
    /\ ret_k.residual = ret.residual

\* ------------------------------------------------------------ C9
\* C9 as stated: for every P >= 1 the objective is evaluated without failure,
\* its regularization term is the sum of the squares of the coefficients at
\* indices 1..P-1, plus c_0^2 when c_0 < 0, and the loss is reconstruction +
\* regularization_weight * regularization.
C9_AllButFirst ==
    pc = "evaluated" =>
        LET rest == RSum([i \in 1..(Len(coeff) - 1) |-> RSquare(coeff[i + 1])])
            reg  == IF coeff[1][1] < 0 THEN RAdd(rest, RSquare(coeff[1])) ELSE rest
        IN  /\ ~loss_ret.raised
            /\ loss_ret.regularization_term = reg
            /\ loss_ret.loss = RAdd(loss_ret.reconstruction_loss, RMul(<<100, 1>>, reg))

\* C9: for P >= 3 the regularization term is c_1^2 + c_2^2 (the indices 1 and
\* 2 that extract_features_all_bands fixes), plus c_0^2 when c_0 < 0, and the
\* loss is reconstruction + regularization_weight * regularization; for P < 3
\* the evaluation raises IndexError.
C9_IndicesOneAndTwo ==
    pc = "evaluated" =>
        /\ Len(coeff) < 3 => loss_ret.raised
        /\ Len(coeff) >= 3 =>
              LET low == RAdd(RSquare(coeff[2]), RSquare(coeff[3]))
                  reg == IF coeff[1][1] < 0 THEN RAdd(low, RSquare(coeff[1])) ELSE low
              IN  /\ ~loss_ret.raised
                  /\ loss_ret.regularization_term = reg
                  /\ loss_ret.loss
                         = RAdd(loss_ret.reconstruction_loss, RMul(<<100, 1>>, reg))

\* Four coefficients, the first negative, the last not 0.
C9_Witness ==
    /\ pc = "evaluated"
    /\ Len(coeff) = 4
    /\ coeff[1] = <<-2, 1>>
    /\ coeff[4] = <<2, 1>>
    /\ ~loss_ret.raised
    /\ loss_ret.regularization_term = <<17, 4>>

\* ------------------------------------------------------------ C3
\* extract_features_all_bands has returned the feature list of the object.
AllBandsDone == pc = "bands" /\ band_i > Len(filters)

\* C3: for every list of bands and every P the list of names and the list of
\* values of an object have the same length, bands * (P + 2), and the driver
\* pairs every name with a value: it raises nothing when it collects the row.
C3_NamesAndValuesSameLength ==
    /\ AllBandsDone =>
          /\ Len(all_features) = Len(filters) * (NumPcs + 2)
          /\ Len(get_feature_names(NumPcs)) = Len(all_features)
          /\ Len(feature_names) = Len(all_features)
    /\ pc = "raised" => ret.outcome # "returned"

\* ------------------------------------------------------------ C4
FieldNames(npcs) ==
    [i \in 1..(npcs + 2) |->
        IF i <= npcs THEN "coeff" \o ToString(i)
        ELSE IF i = npcs + 1 THEN "residuo" ELSE "maxflux"]

\* C4: for every ordering of the bands, the name at position k of the feature
\* vector is the field k mod (P + 2) with the label of the band k div (P + 2)
\* of the caller's list, and the value at k is that field of that band.
C4_NamesMirrorValues ==
    /\ AllBandsDone =>
          \A n \in DOMAIN all_features :
              /\ n \in DOMAIN get_feature_names(NumPcs)
              /\ get_feature_names(NumPcs)[n]
                     = FieldNames(NumPcs)[((n - 1) % (NumPcs + 2)) + 1] \o "_"
                           \o filters[((n - 1) \div (NumPcs + 2)) + 1]
    /\ (pc = "bands" /\ band_i > 1) =>
          SubSeq(all_features, (band_i - 2) * (NumPcs + 2) + 1,
                 (band_i - 1) * (NumPcs + 2)) = ret.features

====
